---- MODULE Spec2Model ----
(***************************************************************************)
(* Model of two classes of the toolkit layer:                              *)
(*   Ext.util.Stateful    - data bag with dirty flag and modified map      *)
(*   Ext.util.GeoLocation - wrapper over the browser geolocation provider  *)
(* Each class is one object with its own specification (SpecStateful,      *)
(* SpecGeoLocation); Spec is their interleaving.                           *)
(***************************************************************************)
EXTENDS Integers, Sequences, FiniteSets, TLC

VARIABLES
    \* ---- Ext.util.Stateful instance ----
    fields,     \* this.fields: the field collection a subclass installs (may be undefined)
    data,       \* this[this.persistanceProperty]: field name -> value
    modified,   \* this.modified: [defined, map]; "delete this.modified" clears defined
    dirty,      \* this.dirty
    editing,    \* this.editing
    hook,       \* the subclass hook (afterEdit/afterReject/afterCommit) the last call invoked
    lastOp,     \* history: the last Stateful call and its arguments
    touched,    \* history: fields written by single-field set, and whether setDirty ran,
                \*          since construction or the latest commit/reject
    committed,  \* history: the data as of construction or the latest commit
    \* ---- Ext.util.GeoLocation instance and its provider ----
    supported,          \* Ext.supports.GeoLocation
    autoUpdate,         \* this.autoUpdate
    allowHighAccuracy,  \* this.allowHighAccuracy
    timeout,            \* this.timeout
    maximumAge,         \* this.maximumAge
    watchOperation,     \* this.watchOperation: Null or the handle of the current watch
    startPending,       \* the constructor's setTimeout(..., 0) has not run yet
    watches,            \* provider: active watch handle -> the options it was registered with
    nextWatchId,        \* provider: the handle the next watchPosition returns
    events,             \* the events the last call fired, in order
    providerCalls,      \* the provider methods the last call invoked, in order
    autoUpdateCall,     \* history: argument and result of the latest setAutoUpdate call
    geoOp,              \* history: the last GeoLocation operation and its argument
    coords,             \* this.timestamp, latitude, ..., speed: the Position properties
    requests,           \* the updateLocation calls so far, in order: where each stands,
                        \* whether it has a callback, what it has raised and passed on
    callbacks,          \* the first argument of each callback the last call invoked
    provided,           \* history: the position the provider delivered last (none: {})
    lastError,          \* history: the provider error the last call was handed (none: {})
    built               \* history: the autoUpdate config, and whether setAutoUpdate(true)
                        \*          has been called since

statefulVars == <<fields, data, modified, dirty, editing, hook, lastOp, touched, committed>>

\* The position properties, the one-shot requests and their logs.
locationVars == <<coords, requests, callbacks, provided, lastError>>

geoVars == <<supported, autoUpdate, allowHighAccuracy, timeout, maximumAge, watchOperation,
             startPending, watches, nextWatchId, events, providerCalls, autoUpdateCall, geoOp,
             locationVars, built>>

vars == <<statefulVars, geoVars>>

(***************************************************************************)
(*                          Ext.util.Stateful                              *)
(***************************************************************************)

\* Property names used with get/set.
Keys == {"name", "email"}

\* JavaScript undefined: what a data bag returns for a key never stored.
Undefined == "undefined"

\* A value whose typeof is "function".
FunctionValue == "function"

\* Values a caller passes to set.
Values == {"a", "A", FunctionValue, Undefined}

\* The empty object {}.
EmptyMap == [k \in {} |-> Undefined]

\* A field convert function applied as field.convert(value, record).
\*   identity : the field type's default conversion
\*   upper    : a custom conversion of the value alone
\*   fromName : a custom conversion that reads the record
ApplyConvert(fn, value, record) ==
    CASE fn = "upper"    -> IF value = "a" THEN "A" ELSE value
      [] fn = "fromName" -> IF record["name"] # Undefined THEN record["name"] ELSE value
      [] OTHER           -> value

\* Field collections a subclass may install, each field with its convert and its
\* type's convert: none at all; "name" alone, with a custom convert ("email" is
\* then an undeclared key); "name" with its type's convert and "email" with a
\* custom convert that reads the record.
FieldConfigs ==
    { [defined |-> FALSE, items |-> <<>>],
      [defined |-> TRUE,
       items |-> << [name |-> "name",  convert |-> "upper",    typeConvert |-> "identity"] >>],
      [defined |-> TRUE,
       items |-> << [name |-> "name",  convert |-> "identity", typeConvert |-> "identity"],
                    [name |-> "email", convert |-> "fromName", typeConvert |-> "identity"] >>] }

\* fields.get(key): the declared fields with that name (empty when undeclared).
FieldsGet(key) == {fields.items[i] : i \in {j \in DOMAIN fields.items : fields.items[j].name = key}}

\* The names of the declared fields, as fields.each visits them.
FieldNames == {fields.items[i].name : i \in DOMAIN fields.items}

\* The value passed to set, stored without conversion.
UnconvertedValue(record, fieldName, value) == value

\* The value set stores for set(fieldName, value): converted when the field has a convert.
ConvertedValue(record, fieldName, value) ==
    IF fields.defined /\ FieldsGet(fieldName) # {}
    THEN LET field == CHOOSE x \in FieldsGet(fieldName) : TRUE
         IN  IF field.convert # "none"
             THEN ApplyConvert(field.convert, value, record)
             ELSE value
    ELSE value

\* The data bag after set(fieldName, value).
StoreField(record, fieldName, value) ==
    [record EXCEPT ![fieldName] = ConvertedValue(record, fieldName, value)]

\* get(field)
get(field) == data[field]

\* getChanges(): the keys of this.modified mapped to their current values.
getChanges ==
    IF modified.defined
    THEN [f \in DOMAIN modified.map |-> data[f]]
    ELSE EmptyMap

\* isModified(fieldName)
isModified(fieldName) == modified.defined /\ fieldName \in DOMAIN modified.map

\* set(fieldName, value) leaving the dirty flag as it was.
setKeepsDirtyFlag(fieldName, value) ==
    /\ data' = StoreField(data, fieldName, value)
    /\ hook' = IF ~editing THEN "afterEdit" ELSE "none"
    /\ UNCHANGED <<fields, modified, editing, dirty>>

\* set(fieldName, value), single-field form.
set(fieldName, value) ==
    /\ data' = StoreField(data, fieldName, value)
    /\ dirty' = TRUE
    /\ hook' = IF ~editing THEN "afterEdit" ELSE "none"
    /\ UNCHANGED <<fields, modified, editing>>

\* Objects handed to set(object): own keys in enumeration order with their values.
ObjectArgs ==
    {s \in UNION {[1..n -> Keys \X Values] : n \in 0..Cardinality(Keys)} :
        \A i, j \in DOMAIN s : i # j => s[i][1] # s[j][1]}

\* Whether set(object) defers the key: the field has a custom convert.
HasCustomConvert(key) ==
    \E field \in FieldsGet(key) : field.convert # field.typeConvert

\* The order in which set(object) calls set(key, value): plain keys first, then
\* the keys with a custom convert.
SetOrder(obj) ==
    SelectSeq(obj, LAMBDA p : ~HasCustomConvert(p[1]))
        \o SelectSeq(obj, LAMBDA p : HasCustomConvert(p[1]))

RECURSIVE SetEach(_, _)
\* The data bag after set(key, value) for each pair of the sequence in turn.
SetEach(record, pairs) ==
    IF pairs = <<>>
    THEN record
    ELSE SetEach(StoreField(record, pairs[1][1], pairs[1][2]), Tail(pairs))

\* Whether set(object) calls the single-field set at all: it has a key, and
\* fields.get does not raise on an undefined field collection.
SetObjectStores(obj) == Len(obj) > 0 /\ fields.defined

\* set(object), object form.
setObject(obj) ==
    /\ data' = IF SetObjectStores(obj) THEN SetEach(data, SetOrder(obj)) ELSE data
    /\ dirty' = IF SetObjectStores(obj) THEN TRUE ELSE dirty
    /\ hook' = IF SetObjectStores(obj) /\ ~editing THEN "afterEdit" ELSE "none"
    /\ UNCHANGED <<fields, modified, editing>>

\* setDirty(): on an undefined field collection fields.each raises after the
\* flag and the map have been set.
setDirty ==
    /\ dirty' = TRUE
    /\ modified' =
         LET old == IF modified.defined THEN modified.map ELSE EmptyMap
             names == IF fields.defined THEN FieldNames ELSE {}
         IN  [defined |-> TRUE,
              map |-> [f \in (DOMAIN old) \cup names |->
                          IF f \in names THEN data[f] ELSE old[f]]]
    /\ hook' = "none"
    /\ UNCHANGED <<fields, data, editing>>

\* reject with the modified map retained.
rejectKeepsModified(silent) ==
    /\ data' = [f \in Keys |->
                   IF modified.defined /\ f \in DOMAIN modified.map
                      /\ modified.map[f] # FunctionValue
                   THEN modified.map[f]
                   ELSE data[f]]
    /\ dirty' = FALSE
    /\ editing' = FALSE
    /\ hook' = IF ~silent THEN "afterReject" ELSE "none"
    /\ UNCHANGED <<fields, modified>>

\* reject(silent)
reject(silent) ==
    /\ data' = [f \in Keys |->
                   IF modified.defined /\ f \in DOMAIN modified.map
                      /\ modified.map[f] # FunctionValue
                   THEN modified.map[f]
                   ELSE data[f]]
    /\ dirty' = FALSE
    /\ editing' = FALSE
    /\ modified' = [defined |-> FALSE, map |-> EmptyMap]
    /\ hook' = IF ~silent THEN "afterReject" ELSE "none"
    /\ UNCHANGED fields

\* commit with the modified map retained.
commitKeepsModified(silent) ==
    /\ dirty' = FALSE
    /\ editing' = FALSE
    /\ hook' = IF ~silent THEN "afterCommit" ELSE "none"
    /\ UNCHANGED <<fields, data, modified>>

\* commit(silent)
commit(silent) ==
    /\ dirty' = FALSE
    /\ editing' = FALSE
    /\ modified' = [defined |-> FALSE, map |-> EmptyMap]
    /\ hook' = IF ~silent THEN "afterCommit" ELSE "none"
    /\ UNCHANGED <<fields, data>>

\* The constructor: empty data bag, empty modified map, class defaults.
StatefulInit ==
    /\ fields \in FieldConfigs
    /\ data = [f \in Keys |-> Undefined]
    /\ modified = [defined |-> TRUE, map |-> EmptyMap]
    /\ dirty = FALSE
    /\ editing = FALSE
    /\ hook = "none"
    /\ lastOp = [op |-> "new", field |-> "-", value |-> "-"]
    /\ touched = [fields |-> {}, setDirty |-> FALSE]
    /\ committed = [f \in Keys |-> Undefined]

Called(op, field, value) ==
    lastOp' = [op |-> op, field |-> field, value |-> value]

Set(fieldName, value) ==
    /\ set(fieldName, value)
    /\ Called("set", fieldName, value)
    /\ touched' = [touched EXCEPT !.fields = @ \cup {fieldName}]
    /\ UNCHANGED committed
    /\ UNCHANGED geoVars

SetObject(obj) ==
    /\ setObject(obj)
    /\ Called("setObject", "-", "-")
    /\ touched' = IF SetObjectStores(obj)
                  THEN [touched EXCEPT !.fields = @ \cup {obj[i][1] : i \in DOMAIN obj}]
                  ELSE touched
    /\ UNCHANGED committed
    /\ UNCHANGED geoVars

SetDirty ==
    /\ setDirty
    /\ Called("setDirty", "-", "-")
    /\ touched' = [touched EXCEPT !.setDirty = TRUE]
    /\ UNCHANGED committed
    /\ UNCHANGED geoVars

Reject(silent) ==
    /\ reject(silent)
    /\ Called("reject", "-", "-")
    /\ touched' = [fields |-> {}, setDirty |-> FALSE]
    /\ UNCHANGED committed
    /\ UNCHANGED geoVars

Commit(silent) ==
    /\ commit(silent)
    /\ Called("commit", "-", "-")
    /\ touched' = [fields |-> {}, setDirty |-> FALSE]
    /\ committed' = data'
    /\ UNCHANGED geoVars

StatefulNext ==
    \/ \E f \in Keys, v \in Values : Set(f, v)
    \/ \E obj \in ObjectArgs : SetObject(obj)
    \/ SetDirty
    \/ \E silent \in BOOLEAN : Reject(silent)
    \/ \E silent \in BOOLEAN : Commit(silent)

(***************************************************************************)
(*                         Ext.util.GeoLocation                            *)
(***************************************************************************)

\* Bound on the handles the provider hands out (calls of watchPosition that return).
MaxWatches == 3

\* Bound on the finite option values, in milliseconds: 0..MaxMillis.
MaxMillis == 1

\* The default of the timeout option; parseOptions leaves it out.
Infinity == -1

\* watchOperation : null
Null == 0

\* Values of the timeout and maximumAge options.
Millis == (0..MaxMillis) \cup {Infinity}

\* The option properties of the object.
Options == [maximumAge |-> maximumAge, timeout |-> timeout,
            allowHighAccuracy |-> allowHighAccuracy]

\* The options with the timeout entry always present.
parseOptionsKeepsInfinity(self) ==
    [maximumAge |-> self.maximumAge, allowHighAccuracy |-> self.allowHighAccuracy,
     timeout |-> self.timeout]

\* parseOptions(), reading the option properties of self.
parseOptions(self) ==
    IF self.timeout # Infinity
    THEN [maximumAge |-> self.maximumAge, allowHighAccuracy |-> self.allowHighAccuracy,
          timeout |-> self.timeout]
    ELSE [maximumAge |-> self.maximumAge, allowHighAccuracy |-> self.allowHighAccuracy]

\* The locationerror event the wrapper raises itself, reported as a timeout.
UnavailableErrorAsTimeout(message) ==
    [name |-> "locationerror", timeout |-> TRUE, permissionDenied |-> FALSE,
     locationUnavailable |-> FALSE, message |-> message]

\* fireEvent('locationerror', this, false, false, true, message)
UnavailableError(message) ==
    [name |-> "locationerror", timeout |-> FALSE, permissionDenied |-> FALSE,
     locationUnavailable |-> TRUE, message |-> message]

\* The provider's watches with the current one left registered.
ClearedWatchesKept == watches

\* The provider's watches after setAutoUpdate has cleared the current one.
ClearedWatches == [h \in DOMAIN watches \ {watchOperation} |-> watches[h]]

\* The provider calls setAutoUpdate makes to clear the current watch.
ClearCalls ==
    IF watchOperation # Null
    THEN << [fn |-> "clearWatch", id |-> watchOperation] >>
    ELSE << >>

\* setAutoUpdate(x) on an object whose option properties are self; raises is
\* whether the provider's watchPosition throws.
setAutoUpdate(x, raises, self) ==
    /\ autoUpdateCall' = [called |-> TRUE, arg |-> x,
                          ret |-> ~x \/ (supported /\ ~raises)]
    /\ IF ~x
       THEN /\ watchOperation' = Null
            /\ watches' = ClearedWatches
            /\ providerCalls' = ClearCalls
            /\ events' = << >>
            /\ UNCHANGED <<autoUpdate, nextWatchId>>
       ELSE IF ~supported
       THEN /\ watchOperation' = Null
            /\ watches' = ClearedWatches
            /\ providerCalls' = ClearCalls
            /\ events' = << UnavailableError("null") >>
            /\ UNCHANGED <<autoUpdate, nextWatchId>>
       ELSE IF raises
       THEN /\ watchOperation' = Null
            /\ watches' = ClearedWatches
            /\ providerCalls' = Append(ClearCalls,
                    [fn |-> "watchPosition", options |-> parseOptions(self), raised |-> TRUE])
            /\ autoUpdate' = FALSE
            /\ events' = << UnavailableError("e.message") >>
            /\ UNCHANGED nextWatchId
       ELSE /\ watchOperation' = nextWatchId
            /\ watches' = [h \in DOMAIN ClearedWatches \cup {nextWatchId} |->
                              IF h = nextWatchId THEN parseOptions(self) ELSE watches[h]]
            /\ providerCalls' = Append(ClearCalls,
                    [fn |-> "watchPosition", options |-> parseOptions(self), raised |-> FALSE])
            /\ nextWatchId' = nextWatchId + 1
            /\ events' = << >>
            /\ UNCHANGED autoUpdate
    /\ UNCHANGED supported

\* setMaximumAge(v) that starts monitoring whatever autoUpdate says.
setMaximumAgeStartsWatch(v, raises) ==
    /\ maximumAge' = v
    /\ setAutoUpdate(TRUE, raises, [Options EXCEPT !.maximumAge = v])
    /\ UNCHANGED <<timeout, allowHighAccuracy>>

\* setMaximumAge(v)
setMaximumAge(v, raises) ==
    /\ maximumAge' = v
    /\ setAutoUpdate(autoUpdate, raises, [Options EXCEPT !.maximumAge = v])
    /\ UNCHANGED <<timeout, allowHighAccuracy>>

\* setTimeout(v)
setTimeout(v, raises) ==
    /\ timeout' = v
    /\ setAutoUpdate(autoUpdate, raises, [Options EXCEPT !.timeout = v])
    /\ UNCHANGED <<maximumAge, allowHighAccuracy>>

\* setAllowHighAccuracy(v)
setAllowHighAccuracy(v, raises) ==
    /\ allowHighAccuracy' = v
    /\ setAutoUpdate(autoUpdate, raises, [Options EXCEPT !.allowHighAccuracy = v])
    /\ UNCHANGED <<maximumAge, timeout>>

\* Bound on the number of updateLocation calls.
MaxRequests == 1

\* JavaScript null.
NullValue == "null"

\* The Position properties of a new object.
NullPosition ==
    [timestamp |-> NullValue, latitude |-> NullValue, longitude |-> NullValue,
     accuracy |-> NullValue, altitude |-> NullValue, altitudeAccuracy |-> NullValue,
     heading |-> NullValue, speed |-> NullValue]

\* Positions the provider delivers (timestamp and coords): one with every
\* property, one with a null altitude and with heading and speed left out.
Positions ==
    { [timestamp |-> "t1", latitude |-> "lat1", longitude |-> "lon1", accuracy |-> "acc1",
       altitude |-> "alt1", altitudeAccuracy |-> "altacc1", heading |-> "h1", speed |-> "s1"],
      [timestamp |-> "t2", latitude |-> "lat2", longitude |-> "lon2", accuracy |-> "acc2",
       altitude |-> NullValue, altitudeAccuracy |-> NullValue,
       heading |-> Undefined, speed |-> Undefined] }

\* The codes of a provider error (error.PERMISSION_DENIED, ...).
PERMISSION_DENIED == 1
POSITION_UNAVAILABLE == 2
TIMEOUT == 3

\* Errors the provider delivers: a code, and a message or none.
PositionErrors ==
    [code : {PERMISSION_DENIED, POSITION_UNAVAILABLE, TIMEOUT}, message : {"msg", Undefined}]

\* Explicit positionOptions a caller hands to updateLocation.
ExplicitOptions == { [enableHighAccuracy |-> TRUE] }

\* The positionOptions argument: left out ({}) or given.
PositionOptionsArgs == {{}} \cup {{o} : o \in ExplicitOptions}

\* The position copied to the properties as delivered.
fireUpdateCopiesAll(position) == position

\* fireUpdate(position): the Position properties it assigns.
fireUpdate(position) ==
    [timestamp |-> position.timestamp,
     latitude |-> position.latitude,
     longitude |-> position.longitude,
     accuracy |-> position.accuracy,
     altitude |-> position.altitude,
     altitudeAccuracy |-> position.altitudeAccuracy,
     heading |-> IF position.heading = Undefined THEN NullValue ELSE position.heading,
     speed |-> IF position.speed = Undefined THEN NullValue ELSE position.speed]

\* fireEvent('locationupdate', this): the event with the properties a listener reads.
LocationUpdate(properties) == [name |-> "locationupdate", coords |-> properties]

\* fireEvent('update', ...): the legacy event.
LegacyUpdate(ok) == [name |-> "update", ok |-> ok]

\* fireError with the timeout and locationUnavailable flags exchanged.
fireErrorFlagsSwapped(error) ==
    [name |-> "locationerror",
     timeout |-> error.code = POSITION_UNAVAILABLE,
     permissionDenied |-> error.code = PERMISSION_DENIED,
     locationUnavailable |-> error.code = TIMEOUT,
     message |-> IF error.message = Undefined THEN NullValue ELSE error.message]

\* fireError(error): the locationerror event it fires.
fireError(error) ==
    [name |-> "locationerror",
     timeout |-> error.code = TIMEOUT,
     permissionDenied |-> error.code = PERMISSION_DENIED,
     locationUnavailable |-> error.code = POSITION_UNAVAILABLE,
     message |-> IF error.message = Undefined THEN NullValue ELSE error.message]

\* The names of the locationupdate and locationerror events among those fired.
Raised(fired) ==
    LET kept == SelectSeq(fired, LAMBDA e : e.name \in {"locationupdate", "locationerror"})
    IN  [i \in DOMAIN kept |-> kept[i].name]

\* A request as updateLocation leaves it.
NewRequest(state, callback) ==
    [state |-> state, callback |-> callback, raised |-> << >>, passed |-> << >>]

\* The request once its result has been delivered.
Delivered(request, fired, passed) ==
    [request EXCEPT !.state = "done", !.raised = @ \o Raised(fired), !.passed = @ \o passed]

\* The options updateLocation hands to getCurrentPosition.
OneShotOptions(positionOptions) ==
    IF positionOptions # {}
    THEN CHOOSE o \in positionOptions : TRUE
    ELSE parseOptions(Options)

\* updateLocation that restarts the monitoring.
updateLocationRestartsWatch(callback, positionOptions, raises) ==
    /\ requests' = Append(requests,
            NewRequest(IF supported /\ ~raises THEN "pending" ELSE "deferred", callback))
    /\ providerCalls' =
            IF supported
            THEN ClearCalls \o
                 << [fn |-> "getCurrentPosition", options |-> OneShotOptions(positionOptions),
                     own |-> positionOptions = {}, raised |-> raises] >>
            ELSE << >>
    /\ watchOperation' = Null
    /\ watches' = ClearedWatches
    /\ events' = << >>
    /\ callbacks' = << >>
    /\ lastError' = {}
    /\ UNCHANGED <<supported, autoUpdate, allowHighAccuracy, timeout, maximumAge,
                   startPending, nextWatchId, autoUpdateCall, coords,
                   provided, built>>

\* updateLocation(callback, scope, positionOptions); raises is whether the
\* provider's getCurrentPosition throws. Unsupported, or on a throw, the failure
\* is deferred to a zero-delay timer; otherwise the request is with the provider.
updateLocation(callback, positionOptions, raises) ==
    /\ requests' = Append(requests,
            NewRequest(IF supported /\ ~raises THEN "pending" ELSE "deferred", callback))
    /\ providerCalls' =
            IF supported
            THEN << [fn |-> "getCurrentPosition", options |-> OneShotOptions(positionOptions),
                     own |-> positionOptions = {}, raised |-> raises] >>
            ELSE << >>
    /\ events' = << >>
    /\ callbacks' = << >>
    /\ lastError' = {}
    /\ UNCHANGED <<supported, autoUpdate, allowHighAccuracy, timeout, maximumAge,
                   watchOperation, startPending, watches, nextWatchId, autoUpdateCall, coords,
                   provided, built>>

\* The failure callback left out.
FailCallbackSkipped(callback) == << >>

\* failFunction: callback.call(scope || me, null, me) when a callback was given.
FailCallback(callback) == IF callback THEN << NullValue >> ELSE << >>

\* The success callback: callback.call(scope || me, me, me) when a callback was given.
SuccessCallback(callback) == IF callback THEN << "geo" >> ELSE << >>

\* failFunction(message, error) for request r: error is {} or the provider's error;
\* the message is null when unsupported and e.message after a throw.
failFunction(r, error) ==
    /\ events' =
         << IF error # {}
            THEN fireError(CHOOSE e \in error : TRUE)
            ELSE UnavailableError(IF supported THEN "e.message" ELSE NullValue),
            LegacyUpdate(FALSE) >>
    /\ callbacks' = FailCallback(requests[r].callback)
    /\ requests' = [requests EXCEPT ![r] = Delivered(@, events', callbacks')]
    /\ lastError' = error
    /\ providerCalls' = << >>
    /\ UNCHANGED <<supported, autoUpdate, allowHighAccuracy, timeout, maximumAge,
                   watchOperation, startPending, watches, nextWatchId, autoUpdateCall, coords,
                   provided, built>>

\* The success callback of updateLocation for request r.
oneShotSuccess(r, position) ==
    /\ coords' = fireUpdate(position)
    /\ events' = << LocationUpdate(coords'), LegacyUpdate(TRUE) >>
    /\ callbacks' = SuccessCallback(requests[r].callback)
    /\ requests' = [requests EXCEPT ![r] = Delivered(@, events', callbacks')]
    /\ provided' = {position}
    /\ lastError' = {}
    /\ providerCalls' = << >>
    /\ UNCHANGED <<supported, autoUpdate, allowHighAccuracy, timeout, maximumAge,
                   watchOperation, startPending, watches, nextWatchId, autoUpdateCall, built>>

\* The constructor: autoUpdate and the options from the config (class defaults:
\* true, false, Infinity, 0); with autoUpdate set it schedules setAutoUpdate on a
\* zero-delay timer.
GeoInit ==
    /\ supported \in BOOLEAN
    /\ autoUpdate \in BOOLEAN
    /\ allowHighAccuracy \in BOOLEAN
    /\ timeout \in Millis
    /\ maximumAge \in Millis
    /\ watchOperation = Null
    /\ startPending = autoUpdate
    /\ watches = [h \in {} |-> {}]
    /\ nextWatchId = 1
    /\ events = << >>
    /\ providerCalls = << >>
    /\ autoUpdateCall = [called |-> FALSE, arg |-> FALSE, ret |-> FALSE]
    /\ geoOp = [op |-> "new", arg |-> "-"]
    /\ coords = NullPosition
    /\ requests = << >>
    /\ callbacks = << >>
    /\ provided = {}
    /\ lastError = {}
    /\ built = [autoUpdate |-> autoUpdate, enabled |-> FALSE]

\* Whether the provider can still hand out a handle, should the call reach watchPosition.
CanWatch(x) == (x /\ supported) => nextWatchId <= MaxWatches

\* Outcomes of the provider's watchPosition, should the call reach it.
Outcomes(x) == IF x /\ supported THEN BOOLEAN ELSE {FALSE}

\* The zero-delay timer of the constructor fires.
DeferredStart ==
    /\ startPending
    /\ CanWatch(autoUpdate)
    /\ startPending' = FALSE
    /\ \E raises \in Outcomes(autoUpdate) : setAutoUpdate(autoUpdate, raises, Options)
    /\ geoOp' = [op |-> "timer", arg |-> "-"]
    /\ callbacks' = << >>
    /\ lastError' = {}
    /\ UNCHANGED <<maximumAge, timeout, allowHighAccuracy, coords, requests, provided, built>>
    /\ UNCHANGED statefulVars

SetAutoUpdate(x) ==
    /\ CanWatch(x)
    /\ \E raises \in Outcomes(x) : setAutoUpdate(x, raises, Options)
    /\ geoOp' = [op |-> "setAutoUpdate", arg |-> IF x THEN "true" ELSE "false"]
    /\ built' = [built EXCEPT !.enabled = @ \/ x]
    /\ callbacks' = << >>
    /\ lastError' = {}
    /\ UNCHANGED <<maximumAge, timeout, allowHighAccuracy, startPending, coords, requests,
                   provided>>
    /\ UNCHANGED statefulVars

SetMaximumAge(v) ==
    /\ CanWatch(autoUpdate)
    /\ \E raises \in Outcomes(autoUpdate) : setMaximumAge(v, raises)
    /\ geoOp' = [op |-> "setMaximumAge", arg |-> "-"]
    /\ callbacks' = << >>
    /\ lastError' = {}
    /\ UNCHANGED <<startPending, coords, requests, provided, built>>
    /\ UNCHANGED statefulVars

SetTimeout(v) ==
    /\ CanWatch(autoUpdate)
    /\ \E raises \in Outcomes(autoUpdate) : setTimeout(v, raises)
    /\ geoOp' = [op |-> "setTimeout", arg |-> "-"]
    /\ callbacks' = << >>
    /\ lastError' = {}
    /\ UNCHANGED <<startPending, coords, requests, provided, built>>
    /\ UNCHANGED statefulVars

SetAllowHighAccuracy(v) ==
    /\ CanWatch(autoUpdate)
    /\ \E raises \in Outcomes(autoUpdate) : setAllowHighAccuracy(v, raises)
    /\ geoOp' = [op |-> "setAllowHighAccuracy", arg |-> "-"]
    /\ callbacks' = << >>
    /\ lastError' = {}
    /\ UNCHANGED <<startPending, coords, requests, provided, built>>
    /\ UNCHANGED statefulVars

\* updateLocation(callback, scope, positionOptions) is called.
UpdateLocation(callback, positionOptions) ==
    /\ Len(requests) < MaxRequests
    /\ \E raises \in (IF supported THEN BOOLEAN ELSE {FALSE}) :
            updateLocation(callback, positionOptions, raises)
    /\ geoOp' = [op |-> "updateLocation", arg |-> "-"]
    /\ UNCHANGED statefulVars

\* getLocation(callback, scope): the cached properties, or updateLocation when
\* no latitude has been retrieved yet.
GetLocation ==
    /\ IF coords.latitude # NullValue
       THEN /\ callbacks' = << "geo" >>
            /\ events' = << >>
            /\ providerCalls' = << >>
            /\ lastError' = {}
            /\ UNCHANGED <<supported, autoUpdate, allowHighAccuracy, timeout, maximumAge,
                           watchOperation, startPending, watches, nextWatchId,
                           autoUpdateCall, coords, requests, provided, built>>
       ELSE /\ Len(requests) < MaxRequests
            /\ \E raises \in (IF supported THEN BOOLEAN ELSE {FALSE}) :
                    updateLocation(TRUE, {}, raises)
    /\ geoOp' = [op |-> "getLocation", arg |-> "-"]
    /\ UNCHANGED statefulVars

\* The provider answers request r with a position.
OneShotSuccess(r, position) ==
    /\ r \in DOMAIN requests
    /\ requests[r].state = "pending"
    /\ oneShotSuccess(r, position)
    /\ geoOp' = [op |-> "oneShotSuccess", arg |-> "-"]
    /\ UNCHANGED statefulVars

\* The provider answers request r with an error.
OneShotError(r, error) ==
    /\ r \in DOMAIN requests
    /\ requests[r].state = "pending"
    /\ failFunction(r, {error})
    /\ geoOp' = [op |-> "oneShotError", arg |-> "-"]
    /\ UNCHANGED statefulVars

\* The zero-delay timer of updateLocation fires for request r.
DeferredFail(r) ==
    /\ r \in DOMAIN requests
    /\ requests[r].state = "deferred"
    /\ failFunction(r, {})
    /\ geoOp' = [op |-> "deferredFail", arg |-> "-"]
    /\ UNCHANGED statefulVars

\* The provider reports a position to the active watch: fireUpdate.
WatchUpdate(position) ==
    /\ watchOperation \in DOMAIN watches
    /\ coords' = fireUpdate(position)
    /\ events' = << LocationUpdate(coords') >>
    /\ provided' = {position}
    /\ callbacks' = << >>
    /\ lastError' = {}
    /\ providerCalls' = << >>
    /\ geoOp' = [op |-> "watchUpdate", arg |-> "-"]
    /\ UNCHANGED <<supported, autoUpdate, allowHighAccuracy, timeout, maximumAge,
                   watchOperation, startPending, watches, nextWatchId, autoUpdateCall,
                   requests, built>>
    /\ UNCHANGED statefulVars

\* The provider reports an error to the active watch: fireError.
WatchError(error) ==
    /\ watchOperation \in DOMAIN watches
    /\ events' = << fireError(error) >>
    /\ lastError' = {error}
    /\ callbacks' = << >>
    /\ providerCalls' = << >>
    /\ geoOp' = [op |-> "watchError", arg |-> "-"]
    /\ UNCHANGED <<supported, autoUpdate, allowHighAccuracy, timeout, maximumAge,
                   watchOperation, startPending, watches, nextWatchId, autoUpdateCall,
                   coords, requests, provided, built>>
    /\ UNCHANGED statefulVars

\* The provider answers request r, one way or the other.
ProviderAnswers(r) ==
    \/ \E position \in Positions : OneShotSuccess(r, position)
    \/ \E error \in PositionErrors : OneShotError(r, error)

GeoNext ==
    \/ \E callback \in BOOLEAN, positionOptions \in PositionOptionsArgs :
            UpdateLocation(callback, positionOptions)
    \/ GetLocation
    \/ \E r \in 1..MaxRequests, position \in Positions : OneShotSuccess(r, position)
    \/ \E r \in 1..MaxRequests, error \in PositionErrors : OneShotError(r, error)
    \/ \E r \in 1..MaxRequests : DeferredFail(r)
    \/ \E position \in Positions : WatchUpdate(position)
    \/ \E error \in PositionErrors : WatchError(error)
    \/ DeferredStart
    \/ \E x \in BOOLEAN : SetAutoUpdate(x)
    \/ \E v \in Millis : SetMaximumAge(v)
    \/ \E v \in Millis : SetTimeout(v)
    \/ \E v \in BOOLEAN : SetAllowHighAccuracy(v)

(***************************************************************************)
(*                            Specifications                               *)
(***************************************************************************)

\* A GeoLocation object left alone: built with autoUpdate off and the default options.
GeoIdle ==
    /\ GeoInit
    /\ supported
    /\ ~autoUpdate
    /\ ~allowHighAccuracy
    /\ timeout = Infinity
    /\ maximumAge = 0

\* A Stateful object left alone: built without a field collection.
StatefulIdle == StatefulInit /\ ~fields.defined

InitStateful == StatefulInit /\ GeoIdle

InitGeoLocation == GeoInit /\ StatefulIdle

\* One Stateful object under every sequence of its operations.
SpecStateful == InitStateful /\ [][StatefulNext]_vars

\* One GeoLocation object under every sequence of its operations and provider outcomes.
SpecGeoLocation == InitGeoLocation /\ [][GeoNext]_vars

\* The same, with the zero-delay timers firing and the provider answering every
\* request it has accepted.
SpecGeoLocationFair ==
    /\ InitGeoLocation
    /\ [][GeoNext]_vars
    /\ WF_vars(DeferredStart)
    /\ \A r \in 1..MaxRequests : WF_vars(DeferredFail(r)) /\ WF_vars(ProviderAnswers(r))

Init == StatefulInit /\ GeoInit

Next == StatefulNext \/ GeoNext

Spec == Init /\ [][Next]_vars

(***************************************************************************)
(*                       Properties of Ext.util.Stateful                   *)
(***************************************************************************)

\* C1: whenever the modified map exists and records at least one field, the
\* dirty flag is true.
C1_ModifiedImpliesDirty ==
    (modified.defined /\ DOMAIN modified.map # {}) => dirty

\* C1 witness: setDirty has recorded the declared fields and the object is dirty.
C1_Witness ==
    modified.defined /\ DOMAIN modified.map # {} /\ dirty /\ lastOp.op = "setDirty"

\* C2: dirty is true exactly when a single-field set or setDirty has run since
\* construction or since the latest commit or reject; commit and reject leave
\* dirty false and editing false.
C2_DirtyTracking ==
    /\ dirty <=> (touched.fields # {} \/ touched.setDirty)
    /\ lastOp.op \in {"commit", "reject"} => (~dirty /\ ~editing)

\* C2 witness: a set after an earlier commit of changed data has made the object
\* dirty again.
C2_Witness ==
    /\ lastOp.op = "set"
    /\ dirty
    /\ \E f \in Keys : committed[f] # Undefined

\* C3: without setDirty in between, getChanges holds exactly the fields set since
\* creation or the latest commit, each with its current value.
C3_GetChangesHoldsSetFields ==
    ~touched.setDirty => getChanges = [f \in touched.fields |-> get(f)]

\* C4: without setDirty in between, isModified(f) is true exactly for the fields
\* set since the load or the latest commit, and false for every field right
\* after commit or reject.
C4_IsModifiedIffSet ==
    /\ ~touched.setDirty => \A f \in Keys : isModified(f) <=> f \in touched.fields
    /\ lastOp.op \in {"commit", "reject"} => \A f \in Keys : ~isModified(f)

\* C5: after reject every field has the value it had at creation or right after
\* the latest commit, and dirty is false.
C5_RejectRestoresCommitted ==
    lastOp.op = "reject" => (\A f \in Keys : get(f) = committed[f]) /\ ~dirty

\* C6: a commit leaves every field value as it was and leaves getChanges empty and
\* isModified false for every field; a reject that directly follows a commit
\* changes no field value.
C6_CommitKeepsDataClearsModified ==
    [][ /\ lastOp'.op = "commit" =>
            /\ \A f \in Keys : get(f)' = get(f)
            /\ getChanges' = EmptyMap
            /\ \A f \in Keys : ~isModified(f)'
        /\ (lastOp.op = "commit" /\ lastOp'.op = "reject") =>
            \A f \in Keys : get(f)' = get(f) ]_vars

\* C6 witness: a commit of changed data has just run and nothing is reported modified.
C6_Witness ==
    /\ lastOp.op = "commit"
    /\ \E f \in Keys : get(f) # Undefined
    /\ getChanges = EmptyMap

\* C7: after set(f, v), get(f) is v, or convert(v, record) when the field declares
\* a convert, and every other field is as before.
C7_SetGetRoundTrip ==
    [][ lastOp'.op = "set" =>
          LET f == lastOp'.field
              v == lastOp'.value
              converts == {x.convert : x \in FieldsGet(f)} \ {"none"}
          IN  /\ data'[f] = IF fields.defined /\ converts # {}
                          THEN ApplyConvert(CHOOSE c \in converts : TRUE, v, data)
                          ELSE v
              /\ \A g \in Keys \ {f} : data'[g] = data[g] ]_vars

\* C7 witness: a set on a field with a convert stored a value other than the one passed.
C7_Witness ==
    /\ lastOp.op = "set"
    /\ FieldsGet(lastOp.field) # {}
    /\ get(lastOp.field) # lastOp.value

(***************************************************************************)
(*                     Properties of Ext.util.GeoLocation                  *)
(***************************************************************************)

SetterOps == {"setMaximumAge", "setTimeout", "setAllowHighAccuracy"}

\* C8: when a watch is active as setMaximumAge, setTimeout or setAllowHighAccuracy
\* is called, and the call raises no error event, then afterwards the old watch is
\* cleared and a new watch is registered with the updated options.
C8_SettersRestartActiveWatch ==
    [][ (geoOp'.op \in SetterOps /\ watchOperation # Null /\ events' = << >>) =>
            /\ watchOperation \notin DOMAIN watches'
            /\ watchOperation' # Null
            /\ watchOperation' \in DOMAIN watches'
            /\ watches'[watchOperation'] = parseOptions(Options') ]_vars

\* C9: whenever setAutoUpdate(x) returns true, a provider watch is active
\* afterwards exactly when x is true; setAutoUpdate(false) always returns true
\* and leaves no watch active.
C9_SetAutoUpdateStartsStops ==
    autoUpdateCall.called =>
        /\ autoUpdateCall.ret => ((DOMAIN watches # {}) <=> autoUpdateCall.arg)
        /\ ~autoUpdateCall.arg => (autoUpdateCall.ret /\ DOMAIN watches = {})

\* C9 witness: setAutoUpdate(false) has returned true after a watch had been
\* registered, and no watch is left.
C9_Witness ==
    /\ geoOp = [op |-> "setAutoUpdate", arg |-> "false"]
    /\ autoUpdateCall.ret
    /\ nextWatchId > 1
    /\ DOMAIN watches = {}

\* Operations that run setAutoUpdate.
AutoUpdateOps == SetterOps \cup {"setAutoUpdate", "timer"}

\* The last call reached watchPosition and the provider raised.
WatchPositionRaised ==
    \E i \in DOMAIN providerCalls :
        providerCalls[i].fn = "watchPosition" /\ providerCalls[i].raised

\* C10: setAutoUpdate(true) returns false exactly when geolocation is unsupported
\* or watchPosition raises; it then fires exactly one locationerror event with
\* timeout and permissionDenied false and locationUnavailable true, and no watch
\* is active afterwards.
C10_SetAutoUpdateFailure ==
    (geoOp.op \in AutoUpdateOps /\ autoUpdateCall.called /\ autoUpdateCall.arg) =>
        /\ ~autoUpdateCall.ret <=> (~supported \/ WatchPositionRaised)
        /\ ~autoUpdateCall.ret =>
              /\ Len(events) = 1
              /\ events[1].name = "locationerror"
              /\ ~events[1].timeout
              /\ ~events[1].permissionDenied
              /\ events[1].locationUnavailable
              /\ DOMAIN watches = {}
              /\ watchOperation = Null

\* C10 witness: setAutoUpdate(true) returned false because watchPosition raised,
\* on an object that had a watch registered before.
C10_Witness ==
    /\ geoOp = [op |-> "setAutoUpdate", arg |-> "true"]
    /\ ~autoUpdateCall.ret
    /\ WatchPositionRaised
    /\ nextWatchId > 1

\* Operations of a one-shot retrieval: the call and the delivery of its result.
OneShotOps == {"updateLocation", "getLocation", "oneShotSuccess", "oneShotError", "deferredFail"}

\* C11: across updateLocation and the delivery of its result the watch handle and
\* the provider's watches are unchanged, and neither clearWatch nor watchPosition
\* is invoked.
C11_UpdateLocationKeepsWatch ==
    [][ geoOp'.op \in OneShotOps =>
            /\ watchOperation' = watchOperation
            /\ watches' = watches
            /\ \A i \in DOMAIN providerCalls' :
                   providerCalls'[i].fn \notin {"clearWatch", "watchPosition"} ]_vars

\* C11 witness: a one-shot result has been delivered while a watch is active.
C11_Witness ==
    /\ geoOp.op = "oneShotSuccess"
    /\ watchOperation # Null
    /\ watchOperation \in DOMAIN watches

\* C12: every updateLocation call raises at most one locationupdate or
\* locationerror and invokes its callback at most once; once its result is
\* delivered it has raised exactly one, and a supplied callback has been invoked
\* exactly once, with the GeoLocation object on success and null on failure; and
\* every call eventually has its result delivered.
C12_OneShotExactlyOnce ==
    /\ [](\A r \in DOMAIN requests :
            /\ Len(requests[r].raised) <= 1
            /\ Len(requests[r].passed) <= 1
            /\ requests[r].state = "done" =>
                  /\ Len(requests[r].raised) = 1
                  /\ requests[r].passed =
                        IF ~requests[r].callback THEN << >>
                        ELSE IF requests[r].raised[1] = "locationupdate" THEN << "geo" >>
                        ELSE << NullValue >>)
    /\ \A r \in 1..MaxRequests :
            (r \in DOMAIN requests) ~> (r \in DOMAIN requests /\ requests[r].state = "done")

\* C12 witness: a call with a callback has failed and the callback got null.
C12_Witness ==
    \E r \in DOMAIN requests :
        /\ requests[r].state = "done"
        /\ requests[r].callback
        /\ requests[r].raised = << "locationerror" >>
        /\ requests[r].passed = << NullValue >>

\* C13: an object built with autoUpdate=false on which setAutoUpdate(true) was
\* never called has never registered a watch and reaches the provider only by
\* getCurrentPosition from updateLocation or getLocation; an object built with
\* autoUpdate=true on a supporting platform eventually has an active watch,
\* unless watchPosition raised or a further call came first.
C13_AutoUpdateAtConstruction ==
    /\ []((~built.autoUpdate /\ ~built.enabled) =>
            /\ nextWatchId = 1
            /\ watchOperation = Null
            /\ DOMAIN watches = {}
            /\ \A i \in DOMAIN providerCalls : providerCalls[i].fn = "getCurrentPosition"
            /\ providerCalls # << >> => geoOp.op \in {"updateLocation", "getLocation"})
    /\ (geoOp.op = "new" /\ built.autoUpdate /\ supported) ~>
            \/ watchOperation \in DOMAIN watches
            \/ geoOp.op = "timer" /\ ~autoUpdateCall.ret
            \/ geoOp.op \notin {"new", "timer"}

\* C13 witness: an object built with autoUpdate=false has had an option changed
\* after a one-shot request, with setAutoUpdate(true) never called.
C13_Witness ==
    /\ ~built.autoUpdate
    /\ ~built.enabled
    /\ supported
    /\ geoOp.op \in SetterOps
    /\ Len(requests) > 0

\* C14: a provider error handed to fireError yields a locationerror event whose
\* flags name the error's code, so at most one is true, and whose message is the
\* provider's or null; errors the wrapper raises itself carry
\* locationUnavailable only.
C14_ErrorClassification ==
    /\ \A e \in lastError :
          /\ events # << >>
          /\ events[1].name = "locationerror"
          /\ events[1].timeout = (e.code = TIMEOUT)
          /\ events[1].permissionDenied = (e.code = PERMISSION_DENIED)
          /\ events[1].locationUnavailable = (e.code = POSITION_UNAVAILABLE)
          /\ Cardinality({flag \in {"timeout", "permissionDenied", "locationUnavailable"} :
                             events[1][flag]}) <= 1
          /\ events[1].message = IF e.message = Undefined THEN NullValue ELSE e.message
    /\ lastError = {} =>
          \A i \in DOMAIN events :
              events[i].name = "locationerror" =>
                  /\ ~events[i].timeout
                  /\ ~events[i].permissionDenied
                  /\ events[i].locationUnavailable

\* C14 witness: the provider reported a timeout without a message.
C14_Witness ==
    /\ lastError = {[code |-> TIMEOUT, message |-> Undefined]}
    /\ events[1].timeout
    /\ events[1].message = NullValue

\* C15: the options handed to the provider by watchPosition, and by
\* getCurrentPosition without explicit positionOptions, carry the current
\* maximumAge and allowHighAccuracy, and a timeout entry, equal to the current
\* timeout, exactly when the timeout is not Infinity.
C15_OptionTranslation ==
    \A i \in DOMAIN providerCalls :
        LET call == providerCalls[i]
        IN  (call.fn = "watchPosition" \/ (call.fn = "getCurrentPosition" /\ call.own)) =>
                /\ call.options.maximumAge = maximumAge
                /\ call.options.allowHighAccuracy = allowHighAccuracy
                /\ ("timeout" \in DOMAIN call.options) <=> (timeout # Infinity)
                /\ timeout # Infinity => call.options.timeout = timeout

\* C15 witness: a watch was registered with an infinite timeout and a changed maximumAge.
C15_Witness ==
    /\ geoOp.op = "setMaximumAge"
    /\ timeout = Infinity
    /\ maximumAge # 0
    /\ \E i \in DOMAIN providerCalls :
           /\ providerCalls[i].fn = "watchPosition"
           /\ "timeout" \notin DOMAIN providerCalls[i].options

\* C16: once the provider has delivered a position, the Position properties equal
\* those of the position delivered last, with heading and speed null when the
\* provider left them out, and so do the properties every locationupdate event
\* shows its listeners; before that no locationupdate is raised.
C16_LastRetrievedPosition ==
    /\ \A p \in provided :
          LET expected == [p EXCEPT !.heading = IF @ = Undefined THEN NullValue ELSE @,
                                   !.speed = IF @ = Undefined THEN NullValue ELSE @]
          IN  /\ coords = expected
              /\ \A i \in DOMAIN events :
                     events[i].name = "locationupdate" => events[i].coords = expected
    /\ provided = {} => \A i \in DOMAIN events : events[i].name # "locationupdate"

\* C16 witness: the watch delivered a position without heading and speed.
C16_Witness ==
    /\ geoOp.op = "watchUpdate"
    /\ \E p \in provided : p.heading = Undefined
    /\ coords.heading = NullValue
    /\ coords.speed = NullValue

====
